---- MODULE Spec2Model ----
(***************************************************************************)
(* Model of the web content analyzer: the fetcher (MCPFetchClient), the    *)
(* per-URL pipeline and batch orchestrator (ContentAnalysisEngine) and the *)
(* aggregation done by the API handlers.                                   *)
(*                                                                         *)
(* Two state machines share the module:                                    *)
(*   SpecFetch  one call of MCPFetchClient.fetch_content, step by step     *)
(*              (one step per await of the coroutine);                     *)
(*   Spec       one request through an entry point (a direct call of the   *)
(*              engine or one of the HTTP handlers), with one task per URL *)
(*              interleaving at the awaits of analyze_url.                 *)
(* Texts (exception messages, insights) are sequences of string pieces, so *)
(* that "begins with" and "carries" are statements about the sequence.     *)
(***************************************************************************)
EXTENDS Integers, Sequences, FiniteSets, TLC

VARIABLES
    \* ---- one fetch_content call (SpecFetch) ----
    f_url,          \* the url argument
    session,        \* TRUE iff self.session is set (the context manager was entered)
    mcp_server_url, \* TRUE iff settings.mcp_server_url is configured
    f_pc,           \* position of the coroutine
    retry_count,    \* the retry_count argument of the running _fetch_direct
    posts,          \* number of POSTs issued to the fetch-proxy service
    responses,      \* what each GET issued so far got back, in order
    in_flight,      \* TRUE iff a GET is issued and not yet answered
    sleeps,         \* the arguments of asyncio.sleep so far, in order
    outcome,        \* what fetch_content returned or raised
    \* ---- one request (Spec) ----
    entry,          \* who calls batch_analyze_urls: "direct" or an HTTP handler
    req_urls,       \* the URLs of the request, as the caller gave them
    req_max_concurrent, \* the max_concurrent the caller gave
    urls,           \* the urls argument of batch_analyze_urls
    parallel_processing,
    max_concurrent, \* the max_concurrent argument of batch_analyze_urls
    b_pc,           \* "request", "running", "returned", "raised", "rejected"
    sem_created,    \* TRUE iff asyncio.Semaphore(max_concurrent) was constructed
    sem_initial,    \* the value it was constructed with
    sem_value,      \* semaphore._value
    waiters,        \* semaphore._waiters: the tasks queued in acquire, in order
    next_start,     \* the next task (loop iteration) to take its first step
    task,           \* per index of urls: the state of that URL's pipeline
    completed,      \* the indices whose analyze_url finished, in completion order
    results,        \* the list batch_analyze_urls returned
    http_status,    \* status of the HTTP response (0: none)
    response,       \* the BatchAnalysisResult of the HTTP response
    \* ---- one call of a helper function (SpecBuild, SpecPrompt, ...) ----
    fn,             \* the function that is called
    arg,            \* its arguments
    value,          \* what it returned
    fn_pc           \* "idle", "call", "done"

bvars == <<entry, req_urls, req_max_concurrent, urls, parallel_processing,
           max_concurrent, b_pc, sem_created, sem_initial, sem_value, waiters,
           next_start, task, completed, results, http_status, response>>

fvars == <<f_url, session, mcp_server_url, f_pc, retry_count, posts, responses,
           in_flight, sleeps, outcome>>

pvars == <<fn, arg, value, fn_pc>>

vars == <<fvars, bvars, pvars>>

\* ------------------------------------------------------------------ bounds

\* longest URL list of a request
MaxUrls == 3

\* ------------------------------------------------------------------ URLs

\* the URLs "https://a.example/p<k>" of a list too long to be accepted
PageUrl(k) == "https://a.example/p" \o ToString(k)

\* urlparse(url) on the URLs of the model: (scheme, netloc).
urlparse(url) ==
    CASE url = "https://a.example/"  -> [scheme |-> "https", netloc |-> "a.example"]
      [] url = "https://a.example"   -> [scheme |-> "https", netloc |-> "a.example"]
      [] url = "https://b.example/"  -> [scheme |-> "https", netloc |-> "b.example"]
      [] url = "not-a-valid-url"     -> [scheme |-> "",      netloc |-> ""]
      [] url = "https://"            -> [scheme |-> "https", netloc |-> ""]
      [] url = "//a.example/page"    -> [scheme |-> "",      netloc |-> "a.example"]
      [] OTHER                       -> [scheme |-> "https", netloc |-> "a.example"]

FetchUrls ==
    {"https://a.example/", "https://b.example/", "not-a-valid-url", "https://",
     "//a.example/page"}

\* mcp_client.py:47, the condition under which the ValueError is raised
InvalidUrlMutant(url) == urlparse(url).scheme = ""
InvalidUrl(url) == urlparse(url).scheme = "" \/ urlparse(url).netloc = ""

\* ------------------------------------------------------------ fetch outcomes

NoText == <<>>

Pending == [kind |-> "pending", status |-> "", source |-> "", error |-> NoText,
            exc |-> ""]

\* return {"content": ..., "status": "success", "source": source}
Success(source) ==
    [kind |-> "return", status |-> "success", source |-> source, error |-> NoText,
     exc |-> ""]

\* return {"content": "", "status": "error", "source": source, "error": str(e)}
Failure(source, text) ==
    [kind |-> "return", status |-> "error", source |-> source, error |-> text,
     exc |-> ""]

\* the exception leaves fetch_content (logged and re-raised at mcp_client.py:57-59)
Raised(exc, text) ==
    [kind |-> "raise", status |-> "", source |-> "", error |-> text, exc |-> exc]

\* ------------------------------------------------------------ transport

\* What one GET can get back: a response with a status, or an exception
\* raised by session.get (connection error, timeout).
Statuses == {200, 204, 403, 404, 418, 429, 500, 503}

Response(status) == [exc |-> FALSE, status |-> status]
TransportException == [exc |-> TRUE, status |-> 0]

TransportText == <<"Cannot connect to host">>

\* response.reason of the statuses that have no message of their own
Reason(status) ==
    CASE status = 204 -> "No Content"
      [] status = 418 -> "I'm a Teapot"
      [] OTHER -> ""

\* mcp_client.py:146-158, error_msg
ErrorMsgMutant(status) == <<"HTTP error">>
ErrorMsg(status) ==
    <<"HTTP ", ToString(status)>> \o
    ( CASE status = 403 -> <<": Forbidden - Website blocked automated access">>
        [] status = 404 -> <<": Not Found - URL does not exist">>
        [] status = 429 -> <<": Too Many Requests - Rate limited">>
        [] status = 500 -> <<": Server Error - Website experiencing issues">>
        [] status = 503 -> <<": Service Unavailable - Website temporarily down">>
        [] OTHER -> <<": ", Reason(status)>> )

\* mcp_client.py:140, the condition of the retry
MaxRetries == 2
RetryableMutant(status, retries) == status = 429 /\ retries <= MaxRetries
Retryable(status, retries) == status = 429 /\ retries < MaxRetries

\* mcp_client.py:142, the argument of asyncio.sleep
Backoff(retries) == 2 ^ retries

\* -------------------------------------------------- the fetch-proxy service

\* What the POST to the fetch-proxy service can come to:
\*   "exception"   session.post raised
\*   "non200"      a response whose status is not 200
\*   "unparseable" status 200, response.json() raised
\*   "result"      status 200, {"result": {...}}
\*   "error"       status 200, {"error": {"message": ...}}
\*   "empty"       status 200, neither a result nor an error
McpReplies == {"exception", "non200", "unparseable", "result", "error", "empty"}

\* mcp_client.py:194, error_msg
McpErrorMsg(reply) ==
    IF reply = "error" THEN "upstream refused" ELSE "Unknown MCP error"

\* mcp_client.py:172-205
_process_mcp_response(reply) ==
    IF reply = "result"
    THEN Success("mcp_server")
    ELSE Failure("mcp_server", <<"MCP server error: ", McpErrorMsg(reply)>>)

\* ------------------------------------------------------- SpecFetch: actions

SessionText == <<"Session not initialized. Use async context manager.">>

\* mcp_client.py:98-117: _fetch_direct up to its first await. Without a
\* session the RuntimeError is raised before the try and leaves the call.
\* The alternative issues the GET without looking at the session.
EnterFetchDirectMutant(retries) ==
    /\ retry_count' = retries
    /\ in_flight' = TRUE
    /\ f_pc' = "get"
    /\ UNCHANGED outcome
EnterFetchDirect(retries) ==
    IF ~session
    THEN /\ outcome' = Raised("RuntimeError", SessionText)
         /\ f_pc' = "done"
         /\ UNCHANGED <<retry_count, in_flight>>
    ELSE /\ retry_count' = retries
         /\ in_flight' = TRUE
         /\ f_pc' = "get"
         /\ UNCHANGED outcome

\* mcp_client.py:34-66 and 81: fetch_content up to its first await
fetch_content ==
    /\ f_pc = "call"
    /\ IF InvalidUrl(f_url)
       THEN /\ outcome' = Raised("ValueError", <<"Invalid URL format: ", f_url>>)
            /\ f_pc' = "done"
            /\ UNCHANGED <<retry_count, posts, in_flight>>
       ELSE IF mcp_server_url
       THEN IF ~session
            THEN /\ outcome' = Raised("RuntimeError", SessionText)
                 /\ f_pc' = "done"
                 /\ UNCHANGED <<retry_count, posts, in_flight>>
            ELSE /\ posts' = posts + 1
                 /\ f_pc' = "post"
                 /\ UNCHANGED <<retry_count, in_flight, outcome>>
       ELSE /\ EnterFetchDirect(0)
            /\ UNCHANGED posts
    /\ UNCHANGED <<f_url, session, mcp_server_url, responses, sleeps>>
    /\ UNCHANGED bvars
    /\ UNCHANGED pvars

\* mcp_client.py:81-96: the POST is answered
_fetch_via_mcp_server(reply) ==
    /\ f_pc = "post"
    /\ IF reply \in {"result", "error", "empty"}
       THEN /\ outcome' = _process_mcp_response(reply)
            /\ f_pc' = "done"
            /\ UNCHANGED <<retry_count, in_flight>>
       ELSE EnterFetchDirect(0)
    /\ UNCHANGED <<f_url, session, mcp_server_url, posts, responses, sleeps>>
    /\ UNCHANGED bvars
    /\ UNCHANGED pvars

\* mcp_client.py:117-118, 138-170: the GET is answered
_fetch_direct(r) ==
    /\ f_pc = "get"
    /\ in_flight
    /\ in_flight' = FALSE
    /\ responses' = Append(responses, r)
    /\ IF r.exc
       THEN /\ outcome' = Failure("direct_fetch", TransportText)
            /\ f_pc' = "done"
            /\ UNCHANGED sleeps
       ELSE IF r.status = 200
       THEN /\ f_pc' = "body"
            /\ UNCHANGED <<outcome, sleeps>>
       ELSE IF Retryable(r.status, retry_count)
       THEN /\ sleeps' = Append(sleeps, Backoff(retry_count))
            /\ f_pc' = "sleep"
            /\ UNCHANGED outcome
       ELSE /\ outcome' = Failure("direct_fetch", ErrorMsg(r.status))
            /\ f_pc' = "done"
            /\ UNCHANGED sleeps
    /\ UNCHANGED <<f_url, session, mcp_server_url, retry_count, posts>>
    /\ UNCHANGED bvars
    /\ UNCHANGED pvars

BodyText == <<"Response payload is not completed">>

\* mcp_client.py:119-137 and 162-170: await response.text() returns or raises
ReadBody(ok) ==
    /\ f_pc = "body"
    /\ outcome' = IF ok THEN Success("direct_fetch")
                        ELSE Failure("direct_fetch", BodyText)
    /\ f_pc' = "done"
    /\ UNCHANGED <<f_url, session, mcp_server_url, retry_count, posts, responses,
                   in_flight, sleeps>>
    /\ UNCHANGED bvars
    /\ UNCHANGED pvars

\* mcp_client.py:142-143: asyncio.sleep returns, _fetch_direct(url, retry_count + 1)
Retry ==
    /\ f_pc = "sleep"
    /\ EnterFetchDirect(retry_count + 1)
    /\ UNCHANGED <<f_url, session, mcp_server_url, posts, responses, sleeps>>
    /\ UNCHANGED bvars
    /\ UNCHANGED pvars

\* ----------------------------------------------------------------- requests

Entries == {"direct", "analyze", "batch-analyze", "upload-urls", "upload-urls-advanced"}

BatchUrls == {"https://a.example", "not-a-valid-url"}

UrlLists == UNION {[1..n -> BatchUrls] : n \in 0..MaxUrls}

\* the max_concurrent values a caller gives
MaxConcurrentValues == {-1, 0, 1, 2, 11}

DefaultMaxConcurrent == 5
MaxBatchSize == 10
MaxLength == 10

\* the lists of distinct URLs that are longer than the handlers accept
LongUrlLists ==
    {[k \in 1..n |-> PageUrl(k)] : n \in {MaxBatchSize + 1, MaxBatchSize + 2}}

\* what a handler's except clauses make of an HTTPException it raised
\* itself: /batch-analyze raises it again (endpoints.py:167-168); the upload
\* handlers have `except Exception` alone, which answers 500
\* (endpoints.py:333-338 and 474-479)
ClientStatus(e, status) == IF e = "batch-analyze" THEN status ELSE 500

\* requests.py:28, urls: List[HttpUrl]: what the validation accepts
IsHttpUrl(u) == urlparse(u).scheme \in {"http", "https"} /\ urlparse(u).netloc # ""

\* endpoints.py:114, str(url) of an HttpUrl: an empty path reads "/"
HttpUrlStr(u) == IF u = "https://a.example" THEN "https://a.example/" ELSE u

\* endpoints.py:398-405
RECURSIVE UniqueUrls(_, _, _)
UniqueUrlsMutant(us, unique_urls, seen) == unique_urls \o us
UniqueUrls(us, unique_urls, seen) ==
    IF us = <<>> THEN unique_urls
    ELSE IF Head(us) \in seen
    THEN UniqueUrls(Tail(us), unique_urls, seen)
    ELSE UniqueUrls(Tail(us), Append(unique_urls, Head(us)), seen \cup {Head(us)})

\* endpoints.py:418, max(1, min(max_concurrent, 10))
ClampMutant(m) == IF m < 10 THEN m ELSE 10
Clamp(m) ==
    LET low == IF m < 10 THEN m ELSE 10
    IN  IF 1 > low THEN 1 ELSE low

\* ------------------------------------------------------------------ results

\* a dict without keys
EmptyDict == [k \in {} |-> 0]

\* None as the value of an optional number; a number n is <<n>>
None == <<>>

\* SemanticAnalysis(...) as content_analyzer.py:293-300 constructs it
SemanticAnalysis(main_topics, entities, themes, content_structure, semantic_keywords) ==
    [main_topics |-> main_topics, entities |-> entities, themes |-> themes,
     content_structure |-> content_structure,
     semantic_keywords |-> semantic_keywords]

\* SentimentScore(...) as content_analyzer.py:304-308 constructs it
SentimentScore(overall, confidence, emotions) ==
    [overall |-> overall, confidence |-> confidence, emotions |-> emotions]

\* ContentAnalysisResult as the except clauses construct it
\* (content_analyzer.py:97-109 and 329-341): SemanticAnalysis(),
\* SentimentScore(overall="neutral", confidence=0.0), category_confidence 0.0
\* and the fields they leave out. Scores are in hundredths.
Result(url, status, category, quality, insights) ==
    [url |-> url, status |-> status, primary_category |-> category,
     content_quality_score |-> quality, key_insights |-> insights,
     secondary_categories |-> <<>>, category_confidence |-> 0,
     content_summary |-> NoText,
     semantic_analysis |-> SemanticAnalysis(<<>>, <<>>, <<>>, EmptyDict, <<>>),
     sentiment |-> SentimentScore("neutral", 0, EmptyDict),
     readability_score |-> None]

NoResult == Result("", "", "", 0, <<>>)

\* what a task ended with: a returned result or an exception
NoRet == [kind |-> "none", result |-> NoResult, text |-> NoText]
Return(result) == [kind |-> "return", result |-> result, text |-> NoText]
RaiseOut(text) == [kind |-> "raise", result |-> NoResult, text |-> text]

\* content_analyzer.py:97-109 and 153-165, the error result
ErrorResult(url, text) ==
    [Result(url, "error", "other", 0, << <<"Error: ">> \o text >>)
        EXCEPT !.content_summary = <<"Analysis failed: ">> \o text]

\* content_analyzer.py:94-109, the except clause of analyze_url
AnalyzeUrlExceptMutant(url, text) == RaiseOut(text)
AnalyzeUrlExcept(url, text) == Return(ErrorResult(url, text))

\* ----------------------------------------------------------------- the LLM

\* dict.get(key, default)
Get(d, key, default) == IF key \in DOMAIN d THEN d[key] ELSE default

\* a reply with every field of the schema the prompt asks for
\* (azure_openai.py, the system prompt); scores are in hundredths
FullReply ==
    [primary_category |-> "news",
     secondary_categories |-> <<"technology">>,
     category_confidence |-> 90,
     content_summary |-> <<"summary">>,
     key_insights |-> << <<"insight">> >>,
     semantic_analysis |->
        [type |-> "dict", main_topics |-> <<"topic">>, entities |-> <<"entity">>,
         themes |-> <<"theme">>, content_structure |-> [paragraphs |-> 3],
         semantic_keywords |-> <<"keyword">>],
     sentiment |->
        [type |-> "dict", overall |-> "positive", confidence |-> 80,
         emotions |-> [joy |-> 50]],
     content_quality_score |-> 80,
     readability_score |-> <<70>>]

\* The JSON objects the LLM answers with: a full one, one with most fields
\* absent, one whose semantic_analysis is null.
LlmReplies ==
    { [primary_category |-> "news", content_quality_score |-> 80,
       key_insights |-> << <<"insight">> >>, semantic_analysis |-> [type |-> "dict"]],
      [content_summary |-> <<"summary">>],
      [primary_category |-> "news", semantic_analysis |-> [type |-> "null"]] }

\* analyze_content returns the parsed reply or raises (azure_openai.py:106-138)
LlmOutcomes ==
    {[exc |-> TRUE, reply |-> <<>>]} \cup {[exc |-> FALSE, reply |-> d] : d \in LlmReplies}

LlmText == <<"Connection error.">>
BuildText == <<"'NoneType' object has no attribute 'get'">>

\* The result schema (the models of ContentAnalysisResult,
\* SemanticAnalysis and SentimentScore): confidences and scores lie in
\* [0, 1], the sentiment is positive, negative or neutral, the readability
\* score is optional.
SchemaAccepts(r) ==
    /\ r.category_confidence \in 0..100
    /\ r.content_quality_score \in 0..100
    /\ r.sentiment.overall \in {"positive", "negative", "neutral"}
    /\ r.sentiment.confidence \in 0..100
    /\ r.readability_score \in {None} \cup {<<n>> : n \in 0..100}

\* content_analyzer.py:289-324: every field is read with dict.get and its
\* default; a semantic_analysis or sentiment that is absent is {}
BuiltResult(url, reply) ==
    LET semantic_data == Get(reply, "semantic_analysis", [type |-> "dict"])
        sentiment_data == Get(reply, "sentiment", [type |-> "dict"])
    IN  [Result(url, "success",
                Get(reply, "primary_category", "other"),
                Get(reply, "content_quality_score", 0),
                Get(reply, "key_insights", <<>>))
            EXCEPT
              !.secondary_categories = Get(reply, "secondary_categories", <<>>),
              !.category_confidence = Get(reply, "category_confidence", 0),
              !.content_summary = Get(reply, "content_summary", NoText),
              !.semantic_analysis =
                  SemanticAnalysis(Get(semantic_data, "main_topics", <<>>),
                                   Get(semantic_data, "entities", <<>>),
                                   Get(semantic_data, "themes", <<>>),
                                   Get(semantic_data, "content_structure", EmptyDict),
                                   Get(semantic_data, "semantic_keywords", <<>>)),
              !.sentiment =
                  SentimentScore(Get(sentiment_data, "overall", "neutral"),
                                 Get(sentiment_data, "confidence", 0),
                                 Get(sentiment_data, "emotions", EmptyDict)),
              !.readability_score = Get(reply, "readability_score", None)]

\* content_analyzer.py:293-308: semantic_data.get(...) or
\* sentiment_data.get(...) raises when the field is present and is no dict;
\* the constructors raise when the schema rejects a value
BuildRaises(reply) ==
    \/ Get(reply, "semantic_analysis", [type |-> "dict"]).type # "dict"
    \/ Get(reply, "sentiment", [type |-> "dict"]).type # "dict"
    \/ ~SchemaAccepts(BuiltResult("", reply))

\* content_analyzer.py:279-341
_build_analysis_resultMutant(url, reply) ==
    IF BuildRaises(reply) \/ DOMAIN reply # DOMAIN FullReply
    THEN [Result(url, "partial_error", "other", 0,
                 << <<"Processing error: ">> \o BuildText >>)
             EXCEPT !.content_summary = <<"Analysis completed with errors">>]
    ELSE BuiltResult(url, reply)
_build_analysis_result(url, reply) ==
    IF BuildRaises(reply)
    THEN [Result(url, "partial_error", "other", 0,
                 << <<"Processing error: ">> \o BuildText >>)
             EXCEPT !.content_summary = <<"Analysis completed with errors">>]
    ELSE BuiltResult(url, reply)

\* --------------------------------------------------------------- pipelines

\* What fetch_content ends with inside analyze_url, where the session is
\* always entered: the ValueError for an invalid URL, otherwise a success
\* or a failure outcome.
FetchResults(url) ==
    IF InvalidUrl(url)
    THEN {Raised("ValueError", <<"Invalid URL format: ", url>>)}
    ELSE {Success("direct_fetch"), Failure("direct_fetch", ErrorMsg(404))}

NewTask ==
    [pc |-> "created", fetch |-> Pending, extract_exc |-> FALSE, raised |-> {},
     ret |-> NoRet, session |-> "none", fetch_calls |-> 0, llm_calls |-> 0]

\* content_analyzer.py:55-56 and mcp_client.py:22-28: analyze_url enters
\* `async with MCPFetchClient()`, which creates the session, and calls
\* fetch_content
EnterAnalyzeUrl(t) ==
    [t EXCEPT !.pc = "fetching", !.session = "open", !.fetch_calls = @ + 1]

\* mcp_client.py:30-32, __aexit__: `if self.session: await self.session.close()`
\* however the block was left
AExitMutant(s, o) == IF s = "open" /\ o.kind # "raise" THEN "closed" ELSE s
AExit(s, o) == IF s = "open" THEN "closed" ELSE s

\* asyncio.Semaphore.locked(): acquire returns at once only when the value
\* is positive and nobody is in the queue (a waiter that was given a slot
\* and has not resumed yet is still in it)
CanAcquireMutant == TRUE
CanAcquire == sem_value > 0 /\ waiters = <<>>

\* content_analyzer.py:141, `async with semaphore` releases however the body ends
ReleasesSlotMutant(ret) == ret.result.status = "success"
ReleasesSlot(ret) == TRUE

\* the positions in the queue w of the tasks whose future is not done
StillWaiting(t, w) == {p \in 1..Len(w) : t[w[p]].pc = "waiting"}

\* asyncio.Semaphore._wake_up_next(): the first waiter whose future is not
\* done (the alternative takes the one that queued last)
NextWaiterMutant(t, w) ==
    CHOOSE p \in StillWaiting(t, w) : \A q \in StillWaiting(t, w) : q <= p
NextWaiter(t, w) ==
    CHOOSE p \in StillWaiting(t, w) : \A q \in StillWaiting(t, w) : p <= q

\* asyncio.Semaphore._wake_up_next() on tasks t, queue w and value v: the
\* next waiter, if there is one, is given a slot and its future is set; it
\* stays in the queue until it resumes
WakeUpNextMutant(t, w, v) ==
    IF StillWaiting(t, w) # {}
    THEN /\ task' = [t EXCEPT ![w[NextWaiter(t, w)]].pc = "woken"]
         /\ sem_value' = v
    ELSE /\ task' = t
         /\ sem_value' = v
WakeUpNext(t, w, v) ==
    IF StillWaiting(t, w) # {}
    THEN /\ task' = [t EXCEPT ![w[NextWaiter(t, w)]].pc = "woken"]
         /\ sem_value' = v - 1
    ELSE /\ task' = t
         /\ sem_value' = v

\* asyncio.Semaphore.release(): self._value += 1, self._wake_up_next()
Release(t) ==
    /\ WakeUpNext(t, waiters, sem_value + 1)
    /\ UNCHANGED waiters

\* analyze_url of task i ends with ret: its slot is released (parallel) or
\* the loop appends the result (sequential, content_analyzer.py:174-176)
Finish(i, ret, steps) ==
    LET t == [task EXCEPT ![i] = [@ EXCEPT !.pc = "done", !.ret = ret,
                                          !.raised = @ \cup steps,
                                          !.session = AExit(@, task[i].fetch)]]
    IN  /\ completed' = Append(completed, i)
        /\ IF parallel_processing /\ ReleasesSlot(ret)
           THEN Release(t)
           ELSE task' = t /\ UNCHANGED <<sem_value, waiters>>
        /\ results' = IF ~parallel_processing /\ ret.kind = "return"
                      THEN Append(results, ret.result)
                      ELSE results
        /\ b_pc' = IF ~parallel_processing /\ ret.kind = "raise"
                   THEN "raised"
                   ELSE b_pc
        /\ http_status' = IF ~parallel_processing /\ ret.kind = "raise"
                             /\ entry # "direct"
                          THEN 500
                          ELSE http_status

\* ------------------------------------------------------------- aggregation

Successful(rs) == SelectSeq(rs, LAMBDA r : r.status = "success")

\* endpoints.py:129
FailedBatch(rs) == SelectSeq(rs, LAMBDA r : r.status = "error")

\* endpoints.py:301 and 447
FailedUpload(rs) == SelectSeq(rs, LAMBDA r : r.status # "success")

CategoryDistribution(rs) ==
    [c \in {rs[k].primary_category : k \in DOMAIN rs} |->
        Cardinality({k \in DOMAIN rs : rs[k].primary_category = c})]

RECURSIVE SumQuality(_)
SumQuality(rs) ==
    IF rs = <<>> THEN 0 ELSE Head(rs).content_quality_score + SumQuality(Tail(rs))

\* an average kept as sum and count; None when there is none
NoAverage == [none |-> TRUE, sum |-> 0, count |-> 0]
Average(sum, count) == [none |-> FALSE, sum |-> sum, count |-> count]

NoResponse ==
    [total_urls |-> 0, successful_analyses |-> 0, failed_analyses |-> 0,
     results |-> <<>>, category_distribution |-> <<>>,
     average_quality_score |-> NoAverage]

\* primary_category is a plain string in ContentAnalysisResult: it has no
\* attribute `value`
HasValueAttribute == FALSE

\* endpoints.py:127-162; primary_category.value of a successful result
\* raises AttributeError, which the handler turns into status 500
BatchAnalyzeResponse(rs, total) ==
    IF Successful(rs) # <<>> /\ ~HasValueAttribute
    THEN [status |-> 500, body |-> NoResponse]
    ELSE [status |-> 200,
          body |->
            [total_urls |-> total,
             successful_analyses |-> Len(Successful(rs)),
             failed_analyses |-> Len(FailedBatch(rs)),
             results |-> rs,
             category_distribution |-> CategoryDistribution(Successful(rs)),
             average_quality_score |->
                IF Successful(rs) # <<>>
                THEN Average(SumQuality(Successful(rs)), Len(Successful(rs)))
                ELSE NoAverage]]

\* endpoints.py:299-323 and 445-469
UploadResponse(rs, total) ==
    LET quality_scores ==
            SelectSeq(Successful(rs), LAMBDA r : r.content_quality_score > 0)
    IN  [status |-> 200,
         body |->
            [total_urls |-> total,
             successful_analyses |-> Len(Successful(rs)),
             failed_analyses |-> Len(FailedUpload(rs)),
             results |-> rs,
             category_distribution |-> CategoryDistribution(Successful(rs)),
             average_quality_score |->
                IF quality_scores # <<>>
                THEN Average(SumQuality(quality_scores), Len(quality_scores))
                ELSE Average(0, 1)]]

\* ------------------------------------------------------------ Spec: actions

\* content_analyzer.py:136-145 and 171-174: batch_analyze_urls up to its
\* first await. asyncio.Semaphore raises ValueError for a negative value.
batch_analyze_urls(us, limit) ==
    /\ urls' = us
    /\ max_concurrent' = limit
    /\ task' = [i \in 1..Len(us) |-> NewTask]
    /\ IF parallel_processing /\ limit < 0
       THEN /\ b_pc' = "raised"
            /\ http_status' = IF entry = "direct" THEN 0 ELSE 500
            /\ UNCHANGED <<sem_created, sem_initial, sem_value>>
       ELSE /\ b_pc' = "running"
            /\ sem_created' = parallel_processing
            /\ sem_initial' = IF parallel_processing THEN limit ELSE 0
            /\ sem_value' = IF parallel_processing THEN limit ELSE 0
            /\ UNCHANGED http_status

\* endpoints.py:64-69: the /analyze handler awaits analyze_url of the one URL
analyze_one(url) ==
    /\ urls' = <<url>>
    /\ task' = <<NewTask>>
    /\ b_pc' = "running"
    /\ UNCHANGED <<max_concurrent, sem_created, sem_initial, sem_value, http_status>>

\* the request is answered without any analysis
Reject(status) ==
    /\ b_pc' = "rejected"
    /\ http_status' = status
    /\ UNCHANGED <<urls, max_concurrent, task, sem_created, sem_initial, sem_value>>

\* The entry point up to the gather or the loop:
\*   direct                the caller's arguments as they are
\*   /analyze              requests.py:11 (422), endpoints.py:61-69
\*   /batch-analyze        requests.py:28 (422), endpoints.py:103-123
\*   /upload-urls          endpoints.py:265-297 and 333-338: the HTTPException
\*                         with status 400 is caught by `except Exception`
\*                         and raised again with status 500
\*   /upload-urls-advanced endpoints.py:380-443 and 474-479, the same
Call ==
    /\ b_pc = "request"
    /\ CASE entry = "direct" ->
              batch_analyze_urls(req_urls, req_max_concurrent)
         [] entry = "analyze" ->
              IF ~IsHttpUrl(req_urls[1])
              THEN Reject(422)
              ELSE analyze_one(HttpUrlStr(req_urls[1]))
         [] entry = "batch-analyze" ->
              IF (\E k \in DOMAIN req_urls : ~IsHttpUrl(req_urls[k]))
                 \/ Len(req_urls) > MaxLength
              THEN Reject(422)
              ELSE IF Len(req_urls) > MaxBatchSize
              THEN Reject(ClientStatus(entry, 400))
              ELSE batch_analyze_urls([k \in DOMAIN req_urls |-> HttpUrlStr(req_urls[k])],
                                      DefaultMaxConcurrent)
         [] entry = "upload-urls" ->
              IF Len(req_urls) = 0 \/ Len(req_urls) > MaxBatchSize
              THEN Reject(ClientStatus(entry, 400))
              ELSE batch_analyze_urls(req_urls, DefaultMaxConcurrent)
         [] entry = "upload-urls-advanced" ->
              LET unique == UniqueUrls(req_urls, <<>>, {})
              IN  IF Len(unique) = 0 \/ Len(unique) > MaxBatchSize
                  THEN Reject(ClientStatus(entry, 400))
                  ELSE batch_analyze_urls(unique, Clamp(req_max_concurrent))
    /\ UNCHANGED <<entry, req_urls, req_max_concurrent, parallel_processing, waiters,
                   next_start, completed, results, response>>
    /\ UNCHANGED fvars
    /\ UNCHANGED pvars

\* content_analyzer.py:174-176: iteration i of the sequential loop begins
\* when the await of iteration i - 1 has returned
PreviousReturnedMutant(i) == TRUE
PreviousReturned(i) == IF i = 1 THEN TRUE ELSE task[i - 1].pc = "done"

\* The first step of task i. The tasks of the gather take their first steps
\* in the order they were created (content_analyzer.py:144-145); each
\* acquires a slot or queues (line 141). The sequential loop starts
\* iteration i when iteration i - 1 has returned (lines 174-176).
Start(i) ==
    /\ b_pc = "running"
    /\ i \in DOMAIN task
    /\ i = next_start
    /\ task[i].pc = "created"
    /\ next_start' = i + 1
    /\ IF parallel_processing
       THEN IF CanAcquire
            THEN /\ sem_value' = sem_value - 1
                 /\ task' = [task EXCEPT ![i] = EnterAnalyzeUrl(@)]
                 /\ UNCHANGED waiters
            ELSE /\ waiters' = Append(waiters, i)
                 /\ task' = [task EXCEPT ![i].pc = "waiting"]
                 /\ UNCHANGED sem_value
       ELSE /\ PreviousReturned(i)
            /\ task' = [task EXCEPT ![i] = EnterAnalyzeUrl(@)]
            /\ UNCHANGED <<sem_value, waiters>>
    /\ UNCHANGED <<entry, req_urls, req_max_concurrent, urls, parallel_processing,
                   max_concurrent, b_pc, sem_created, sem_initial, completed,
                   results, http_status, response>>
    /\ UNCHANGED fvars
    /\ UNCHANGED pvars

\* asyncio.Semaphore.acquire() after `await fut`: a queued task that was
\* given a slot resumes, leaves the queue, wakes the next waiter if a slot
\* is free, and enters analyze_url. The event loop resumes the tasks in the
\* order their futures were set, which is their order in the queue.
Wake(i) ==
    /\ b_pc = "running"
    /\ i \in DOMAIN task
    /\ task[i].pc = "woken"
    /\ \A k \in DOMAIN task : k < i => task[k].pc # "woken"
    /\ LET w == SelectSeq(waiters, LAMBDA k : k # i)
           t == [task EXCEPT ![i] = EnterAnalyzeUrl(@)]
       IN  /\ waiters' = w
           /\ IF sem_value > 0
              THEN WakeUpNext(t, w, sem_value)
              ELSE task' = t /\ UNCHANGED sem_value
    /\ UNCHANGED <<entry, req_urls, req_max_concurrent, urls, parallel_processing,
                   max_concurrent, b_pc, sem_created, sem_initial,
                   next_start, completed, results, http_status, response>>
    /\ UNCHANGED fvars
    /\ UNCHANGED pvars

\* content_analyzer.py:55-56: fetch_content of task i ends with outcome o;
\* the session is being closed
FetchDone(i, o) ==
    /\ b_pc = "running"
    /\ i \in DOMAIN task
    /\ task[i].pc = "fetching"
    /\ o \in FetchResults(urls[i])
    /\ task' = [task EXCEPT ![i] = [@ EXCEPT !.pc = "closing", !.fetch = o]]
    /\ UNCHANGED <<entry, req_urls, req_max_concurrent, urls, parallel_processing,
                   max_concurrent, b_pc, sem_created, sem_initial, sem_value, waiters,
                   next_start, completed, results, http_status, response>>
    /\ UNCHANGED fvars
    /\ UNCHANGED pvars

\* content_analyzer.py:58, the condition under which analyze_url gives up
\* after the fetch
FetchFailedMutant(o) == FALSE
FetchFailed(o) == o.status = "error"

\* content_analyzer.py:55-79 and 94-109: the session is closed; a fetch that
\* raised or failed ends analyze_url in its except clause; otherwise text and
\* metadata are extracted (an exception inside the extractor is caught there,
\* content_analyzer.py:218-220 and 275-277) and the LLM is called
CloseSession(i, extractor_raises) ==
    /\ b_pc = "running"
    /\ i \in DOMAIN task
    /\ task[i].pc = "closing"
    /\ IF task[i].fetch.kind = "raise"
       THEN /\ ~extractor_raises
            /\ Finish(i, AnalyzeUrlExcept(urls[i], task[i].fetch.error), {"fetch"})
       ELSE IF FetchFailed(task[i].fetch)
       THEN /\ ~extractor_raises
            /\ Finish(i, AnalyzeUrlExcept(urls[i],
                            <<"Failed to fetch content: ">> \o task[i].fetch.error),
                      {"fetch"})
       ELSE /\ task' = [task EXCEPT ![i] =
                          [@ EXCEPT !.pc = "analyzing",
                                    !.session = AExit(@, task[i].fetch),
                                    !.llm_calls = @ + 1,
                                    !.extract_exc = extractor_raises,
                                    !.raised = IF extractor_raises
                                               THEN @ \cup {"extract"} ELSE @]]
            /\ UNCHANGED <<b_pc, sem_value, waiters, completed, results, http_status>>
    /\ UNCHANGED <<entry, req_urls, req_max_concurrent, urls, parallel_processing,
                   max_concurrent, sem_created, sem_initial, next_start, response>>
    /\ UNCHANGED fvars
    /\ UNCHANGED pvars

\* content_analyzer.py:73-109: analyze_content returns the reply or raises
LlmDone(i, r) ==
    /\ b_pc = "running"
    /\ i \in DOMAIN task
    /\ task[i].pc = "analyzing"
    /\ r \in LlmOutcomes
    /\ IF r.exc
       THEN Finish(i, AnalyzeUrlExcept(urls[i], LlmText), {"llm"})
       ELSE Finish(i, Return(_build_analysis_result(urls[i], r.reply)),
                   IF BuildRaises(r.reply) THEN {"build"} ELSE {})
    /\ UNCHANGED <<entry, req_urls, req_max_concurrent, urls, parallel_processing,
                   max_concurrent, sem_created, sem_initial, next_start, response>>
    /\ UNCHANGED fvars
    /\ UNCHANGED pvars

\* asyncio.gather: the tasks' outcomes in the order of the tasks
GatherMutant(t) == [k \in 1..Len(completed) |-> t[completed[k]].ret]
Gather(t) == [i \in DOMAIN t |-> t[i].ret]

\* content_analyzer.py:147-170
ProcessedResults(rets) ==
    [i \in DOMAIN rets |->
        IF rets[i].kind = "raise"
        THEN ErrorResult(urls[i], rets[i].text)
        ELSE rets[i].result]

\* content_analyzer.py:145-170 and 178, then the rest of the handler (the
\* /analyze handler returns the result it awaited, endpoints.py:72)
BatchReturn ==
    /\ b_pc = "running"
    /\ \A i \in DOMAIN task : task[i].pc = "done"
    /\ LET rs == IF parallel_processing
                 THEN ProcessedResults(Gather(task))
                 ELSE results
           answer == CASE entry = "direct" -> [status |-> 0, body |-> NoResponse]
                       [] entry = "analyze" -> [status |-> 200, body |-> NoResponse]
                       [] entry = "batch-analyze" -> BatchAnalyzeResponse(rs, Len(req_urls))
                       [] OTHER -> UploadResponse(rs, Len(urls))
       IN  /\ results' = rs
           /\ http_status' = answer.status
           /\ response' = answer.body
    /\ b_pc' = "returned"
    /\ UNCHANGED <<entry, req_urls, req_max_concurrent, urls, parallel_processing,
                   max_concurrent, sem_created, sem_initial, sem_value, waiters,
                   next_start, task, completed>>
    /\ UNCHANGED fvars
    /\ UNCHANGED pvars

BatchIdle ==
    /\ entry = "direct"
    /\ req_urls = <<>>
    /\ req_max_concurrent = 0
    /\ urls = <<>>
    /\ parallel_processing = TRUE
    /\ max_concurrent = 0
    /\ b_pc = "idle"
    /\ sem_created = FALSE
    /\ sem_initial = 0
    /\ sem_value = 0
    /\ waiters = <<>>
    /\ next_start = 1
    /\ task = <<>>
    /\ completed = <<>>
    /\ results = <<>>
    /\ http_status = 0
    /\ response = NoResponse

BatchInit ==
    /\ entry \in Entries
    /\ req_urls \in
          (CASE entry = "direct" -> UrlLists
             [] entry = "analyze" -> {us \in UrlLists : Len(us) = 1}
             [] OTHER -> UrlLists \cup LongUrlLists)
    /\ req_max_concurrent \in
          (IF entry \in {"direct", "upload-urls-advanced"}
           THEN MaxConcurrentValues ELSE {DefaultMaxConcurrent})
    /\ parallel_processing \in
          (CASE entry \in {"direct", "batch-analyze"} -> BOOLEAN
             [] entry = "analyze" -> {FALSE}
             [] OTHER -> {TRUE})
    /\ urls = <<>>
    /\ max_concurrent = 0
    /\ b_pc = "request"
    /\ sem_created = FALSE
    /\ sem_initial = 0
    /\ sem_value = 0
    /\ waiters = <<>>
    /\ next_start = 1
    /\ task = <<>>
    /\ completed = <<>>
    /\ results = <<>>
    /\ http_status = 0
    /\ response = NoResponse

PureIdle ==
    /\ fn = "none"
    /\ arg = <<>>
    /\ value = <<>>
    /\ fn_pc = "idle"

FetchIdle ==
    /\ f_url = "https://a.example/"
    /\ session = TRUE
    /\ mcp_server_url = FALSE
    /\ f_pc = "idle"
    /\ retry_count = 0
    /\ posts = 0
    /\ responses = <<>>
    /\ in_flight = FALSE
    /\ sleeps = <<>>
    /\ outcome = Pending

FetchInit ==
    /\ f_url \in FetchUrls
    /\ session \in BOOLEAN
    /\ mcp_server_url \in BOOLEAN
    /\ f_pc = "call"
    /\ retry_count = 0
    /\ posts = 0
    /\ responses = <<>>
    /\ in_flight = FALSE
    /\ sleeps = <<>>
    /\ outcome = Pending
    /\ BatchIdle
    /\ PureIdle

FetchNext ==
    \/ fetch_content
    \/ \E reply \in McpReplies : _fetch_via_mcp_server(reply)
    \/ \E r \in {Response(s) : s \in Statuses} \cup {TransportException} :
          _fetch_direct(r)
    \/ \E ok \in BOOLEAN : ReadBody(ok)
    \/ Retry

SpecFetch == FetchInit /\ [][FetchNext]_vars

Init == BatchInit /\ FetchIdle /\ PureIdle

Next ==
    \/ Call
    \/ \E i \in 1..Len(urls) : Start(i)
    \/ \E i \in 1..Len(urls) : Wake(i)
    \/ \E i \in 1..Len(urls) : \E o \in FetchResults(urls[i]) : FetchDone(i, o)
    \/ \E i \in 1..Len(urls) : \E x \in BOOLEAN : CloseSession(i, x)
    \/ \E i \in 1..Len(urls) : \E r \in LlmOutcomes : LlmDone(i, r)
    \/ BatchReturn

Spec == Init /\ [][Next]_vars

\* ------------------------------------------- one call of a helper function

\* the dict d without the keys outside keep
Restrict(d, keep) == [k \in DOMAIN d \cap keep |-> d[k]]

\* FullReply with only the fields top at the top level, sem inside
\* semantic_analysis and sen inside sentiment (a dict that is present stays
\* a dict)
PartialReply(top, sem, sen) ==
    [k \in top |->
        CASE k = "semantic_analysis" ->
                Restrict(FullReply.semantic_analysis, sem \cup {"type"})
          [] k = "sentiment" ->
                Restrict(FullReply.sentiment, sen \cup {"type"})
          [] OTHER -> FullReply[k]]

\* a reply whose sentiment is null
NullSentimentReply == [primary_category |-> "news", sentiment |-> [type |-> "null"]]

\* content_analyzer.py:84-89: analyze_url builds the result from the reply
BuildResult ==
    /\ fn = "_build_analysis_result"
    /\ fn_pc = "call"
    /\ value' = _build_analysis_result(arg.url, arg.ai_analysis)
    /\ fn_pc' = "done"
    /\ UNCHANGED <<fn, arg>>
    /\ UNCHANGED <<fvars, bvars>>

BuildInit ==
    /\ fn = "_build_analysis_result"
    /\ \/ \E top \in SUBSET DOMAIN FullReply :
             \E sem \in SUBSET DOMAIN FullReply.semantic_analysis :
                 \E sen \in SUBSET DOMAIN FullReply.sentiment :
                    arg = [url |-> "https://a.example",
                           ai_analysis |-> PartialReply(top, sem, sen)]
       \/ arg \in [url : {"https://a.example"},
                   ai_analysis : LlmReplies \cup {NullSentimentReply}]
    /\ value = <<>>
    /\ fn_pc = "call"
    /\ BatchIdle
    /\ FetchIdle

SpecBuild == BuildInit /\ [][BuildResult]_vars

\* ---- the prompt (azure_openai.py:181-226)

\* the longest cleaned text and the largest settings.max_content_length
\* tried; a text is a sequence of characters
MaxTextLen == 4
MaxSetting == 3

Characters == {"a", "b"}

Texts == UNION {[1..n -> Characters] : n \in 0..MaxTextLen}

TruncationMarker == "... [content truncated]"

\* azure_openai.py:192-194
TruncateMutant(content, max_content) ==
    IF Len(content) >= max_content
    THEN SubSeq(content, 1, max_content) \o <<TruncationMarker>>
    ELSE content
Truncate(content, max_content) ==
    IF Len(content) > max_content
    THEN SubSeq(content, 1, max_content) \o <<TruncationMarker>>
    ELSE content

\* azure_openai.py:196-224: the parts of the prompt, the content between two
\* rules
_build_analysis_prompt(content, url, max_content) ==
    <<"Analyze the following web page content from URL: ", url,
      "Web page content:", "=====">>
        \o Truncate(content, max_content)
        \o <<"=====", "Provide a comprehensive semantic analysis including:">>

\* azure_openai.py:103: analyze_content builds the prompt it submits
BuildPrompt ==
    /\ fn = "_build_analysis_prompt"
    /\ fn_pc = "call"
    /\ value' = _build_analysis_prompt(arg.content, arg.url, arg.max_content_length)
    /\ fn_pc' = "done"
    /\ UNCHANGED <<fn, arg>>
    /\ UNCHANGED <<fvars, bvars>>

PromptInit ==
    /\ fn = "_build_analysis_prompt"
    /\ arg \in [content : Texts, url : {"https://a.example"},
                max_content_length : 0..MaxSetting]
    /\ value = <<>>
    /\ fn_pc = "call"
    /\ BatchIdle
    /\ FetchIdle

SpecPrompt == PromptInit /\ [][BuildPrompt]_vars

\* ---- the fan-out helper (azure_openai.py:227-274)

\* the longest content_list tried
MaxItems == 3

\* content_list items: dicts with 'content' and 'url'
Items == [content : {<<"a">>, <<"b">>}, url : {"https://a.example", "https://b.example"}]

ContentLists == UNION {[1..n -> Items] : n \in 0..MaxItems}

\* what one analyze_content call of the gather ended with
NotDone == [kind |-> "pending", reply |-> EmptyDict, text |-> NoText]
Replied(item) ==
    [kind |-> "return",
     reply |-> [primary_category |-> "news", content_summary |-> item.content],
     text |-> NoText]
Threw == [kind |-> "raise", reply |-> EmptyDict, text |-> LlmText]

\* azure_openai.py:259-270: the results of the gather, in the order of the
\* tasks, with an exception replaced by {error, url}
ProcessedRepliesMutant(content_list, gathered) ==
    LET kept == SelectSeq([i \in DOMAIN gathered |-> i],
                          LAMBDA i : gathered[i].kind = "return")
    IN  [k \in DOMAIN kept |-> gathered[kept[k]].reply]
ProcessedReplies(content_list, gathered) ==
    [i \in DOMAIN gathered |->
        IF gathered[i].kind = "raise"
        THEN [error |-> gathered[i].text, url |-> content_list[i].url]
        ELSE gathered[i].reply]

\* azure_openai.py:244-256 with 106-138: the analyze_content call of item i,
\* one of the concurrent tasks of the gather, returns its reply or raises
AnalyzeContentDone(i, raises) ==
    /\ fn = "batch_analyze_content"
    /\ fn_pc = "call"
    /\ i \in DOMAIN arg
    /\ value.results[i] = NotDone
    /\ value' = [value EXCEPT !.results[i] = IF raises THEN Threw ELSE Replied(arg[i])]
    /\ UNCHANGED <<fn, arg, fn_pc>>
    /\ UNCHANGED <<fvars, bvars>>

\* azure_openai.py:257-270: every task is over, the gather returns and the
\* results are processed
BatchAnalyzeReturn ==
    /\ fn = "batch_analyze_content"
    /\ fn_pc = "call"
    /\ \A i \in DOMAIN arg : value.results[i] # NotDone
    /\ value' = [value EXCEPT
                    !.processed_results = ProcessedReplies(arg, Gather([i \in DOMAIN arg |->
                                              [ret |-> value.results[i]]]))]
    /\ fn_pc' = "done"
    /\ UNCHANGED <<fn, arg>>
    /\ UNCHANGED <<fvars, bvars>>

FanOutInit ==
    /\ fn = "batch_analyze_content"
    /\ arg \in ContentLists
    /\ value = [results |-> [i \in DOMAIN arg |-> NotDone], processed_results |-> <<>>]
    /\ fn_pc = "call"
    /\ BatchIdle
    /\ FetchIdle

FanOutNext ==
    \/ \E i \in 1..MaxItems : \E raises \in BOOLEAN : AnalyzeContentDone(i, raises)
    \/ BatchAnalyzeReturn

SpecFanOut == FanOutInit /\ [][FanOutNext]_vars

\* ---- text extraction (content_analyzer.py:180-220)

\* the most top-level elements of a document tried
MaxNodes == 2

\* an element: its tag, id and class, the text directly in it (a sequence
\* of pieces: words, or " " for whitespace) and its child elements
Element(tag, id, class, text, kids) ==
    [tag |-> tag, id |-> id, class |-> class, text |-> text, kids |-> kids]

\* the elements tried at the top level: one per selector, a plain div and
\* the five kinds that are removed
ElementKinds ==
    { <<"main", "", "">>, <<"article", "", "">>, <<"div", "content", "">>,
      <<"div", "", "content">>, <<"div", "main", "">>, <<"div", "", "main">>,
      <<"div", "", "post-content">>, <<"div", "", "entry-content">>,
      <<"div", "", "">>, <<"script", "", "">>, <<"style", "", "">>,
      <<"nav", "", "">>, <<"footer", "", "">>, <<"header", "", "">> }

\* the tags tried for a child element
KidTags == {"p", "script", "main", "nav"}

TopWords == <<"t1", "t2", "t3">>
KidWords == <<"k1", "k2", "k3">>

\* the k-th top-level element: of kind c.el, with no text, with whitespace
\* or with its own word, and with no child or one child that has its word
TopChoices ==
    [el : ElementKinds, text : {"none", "ws", "word"}, kid : {"none"} \cup KidTags]

TopElement(k, c) ==
    Element(c.el[1], c.el[2], c.el[3],
            CASE c.text = "none" -> <<>>
              [] c.text = "ws" -> <<" ">>
              [] c.text = "word" -> <<TopWords[k]>>,
            IF c.kid = "none"
            THEN <<>>
            ELSE <<Element(c.kid, "", "", <<KidWords[k]>>, <<>>)>>)

\* A document: a head with a title, then the top-level elements cs chooses,
\* inside a body element or without one
Document(body, cs) ==
    [head |-> <<"title">>, body |-> body,
     nodes |-> [k \in DOMAIN cs |-> TopElement(k, cs[k])]]

\* content_analyzer.py:186
RemovedTagsMutant == {"script", "style", "nav", "footer"}
RemovedTags == {"script", "style", "nav", "footer", "header"}

\* content_analyzer.py:186-187: every element with one of these tags is
\* taken out of the tree, with all that is inside it
RECURSIVE Decompose(_)
Decompose(ns) ==
    IF ns = <<>>
    THEN <<>>
    ELSE (IF Head(ns).tag \in RemovedTags
          THEN <<>>
          ELSE << [Head(ns) EXCEPT !.kids = Decompose(@)] >>)
         \o Decompose(Tail(ns))

\* Tag.get_text(): the text pieces of the elements, in document order
RECURSIVE GetText(_)
GetText(ns) ==
    IF ns = <<>>
    THEN <<>>
    ELSE Head(ns).text \o GetText(Head(ns).kids) \o GetText(Tail(ns))

\* the elements of a tree in document order
RECURSIVE Descendants(_)
Descendants(ns) ==
    IF ns = <<>>
    THEN <<>>
    ELSE <<Head(ns)>> \o Descendants(Head(ns).kids) \o Descendants(Tail(ns))

Selector(by, name) == [by |-> by, name |-> name]

\* content_analyzer.py:193-196
main_selectors ==
    << Selector("tag", "main"), Selector("tag", "article"),
       Selector("id", "content"), Selector("class", "content"),
       Selector("id", "main"), Selector("class", "main"),
       Selector("class", "post-content"), Selector("class", "entry-content") >>

Matches(selector, e) ==
    CASE selector.by = "tag" -> e.tag = selector.name
      [] selector.by = "id" -> e.id = selector.name
      [] selector.by = "class" -> e.class = selector.name

\* soup.select_one(selector): the first element in document order that
\* matches, as a list of one element, or the empty list (None)
select_one(selector, ns) ==
    LET all == Descendants(ns)
        hits == {p \in DOMAIN all : Matches(selector, all[p])}
    IN  IF hits = {}
        THEN <<>>
        ELSE << all[CHOOSE p \in hits : \A q \in hits : p <= q] >>

\* content_analyzer.py:213-214: runs of whitespace become one space and the
\* ends are trimmed, which leaves the words
CleanUp(pieces) == SelectSeq(pieces, LAMBDA w : w # " ")

\* content_analyzer.py:180-220. The loop stops at the first selector that
\* matches (a Tag is true even when it is empty) and keeps that element's
\* text; `if not main_content` then falls back to the body, or to the whole
\* document, when that text is the empty string.
_extract_text_content(html_content, parser_raises) ==
    IF parser_raises
    THEN [kind |-> "raw", html |-> html_content]
    ELSE LET soup == Decompose(html_content.nodes)
             matching == {s \in DOMAIN main_selectors :
                             select_one(main_selectors[s], soup) # <<>>}
             first == CHOOSE s \in matching : \A r \in matching : s <= r
             selected == IF matching = {}
                         THEN <<>>
                         ELSE GetText(select_one(main_selectors[first], soup))
             main_content ==
                 IF selected # <<>>
                 THEN selected
                 ELSE IF html_content.body
                 THEN GetText(soup)
                 ELSE html_content.head \o GetText(soup)
         IN  [kind |-> "text", words |-> CleanUp(main_content)]

\* content_analyzer.py:62: analyze_url extracts the text of the fetched
\* page; an exception of the parser is caught inside (lines 218-220)
ExtractText ==
    /\ fn = "_extract_text_content"
    /\ fn_pc = "call"
    /\ value' = _extract_text_content(arg.html_content, arg.parser_raises)
    /\ fn_pc' = "done"
    /\ UNCHANGED <<fn, arg>>
    /\ UNCHANGED <<fvars, bvars>>

ExtractInit ==
    /\ fn = "_extract_text_content"
    /\ \E n \in 0..MaxNodes : \E cs \in [1..n -> TopChoices] :
          \E body \in BOOLEAN : \E parser_raises \in BOOLEAN :
             arg = [html_content |-> Document(body, cs),
                    parser_raises |-> parser_raises]
    /\ value = <<>>
    /\ fn_pc = "call"
    /\ BatchIdle
    /\ FetchIdle

SpecExtract == ExtractInit /\ [][ExtractText]_vars

\* ---- the urls_text of /upload-urls-advanced (endpoints.py:378-418)

\* the most lines of a urls_text, and the most comma-separated fields of a
\* line, tried
MaxLines == 2
MaxFields == 2

\* what stands between two separators
Fields == {"", "https://a.example", " https://a.example ", "https://b.example"}

\* a line is its comma-separated fields, a text is its lines
Lines == UNION {[1..n -> Fields] : n \in 1..MaxFields}
UrlTexts == UNION {[1..n -> Lines] : n \in 1..MaxLines}

\* str.strip()
Strip(field) == IF field = " https://a.example " THEN "https://a.example" ELSE field

\* endpoints.py:388-394: the URLs of one line
LineUrls(line) ==
    IF Len(line) > 1
    THEN SelectSeq([k \in DOMAIN line |-> Strip(line[k])], LAMBDA u : u # "")
    ELSE IF Strip(line[1]) # "" THEN <<Strip(line[1])>> ELSE <<>>

\* endpoints.py:384-394: the URLs of the lines, in reading order
RECURSIVE SplitUrls(_)
SplitUrls(lines) ==
    IF lines = <<>> THEN <<>> ELSE LineUrls(Head(lines)) \o SplitUrls(Tail(lines))

\* endpoints.py:378-418 and 461: the handler parses urls_text, removes the
\* duplicates and rejects an empty or too long list; otherwise these URLs
\* are analyzed and total_urls is their number
ParseUrlsText ==
    /\ fn = "upload_urls_advanced"
    /\ fn_pc = "call"
    /\ LET unique_urls == UniqueUrls(SplitUrls(arg), <<>>, {})
       IN  value' =
              IF Len(unique_urls) = 0 \/ Len(unique_urls) > MaxBatchSize
              THEN [status |-> ClientStatus("upload-urls-advanced", 400),
                    urls |-> <<>>, total_urls |-> 0]
              ELSE [status |-> 0, urls |-> unique_urls,
                    total_urls |-> Len(unique_urls)]
    /\ fn_pc' = "done"
    /\ UNCHANGED <<fn, arg>>
    /\ UNCHANGED <<fvars, bvars>>

UploadInit ==
    /\ fn = "upload_urls_advanced"
    /\ arg \in UrlTexts
    /\ value = <<>>
    /\ fn_pc = "call"
    /\ BatchIdle
    /\ FetchIdle

SpecUpload == UploadInit /\ [][ParseUrlsText]_vars

\* ------------------------------------------------- claims about the fetcher

Last(seq) == seq[Len(seq)]

\* number of GETs issued so far
Gets == Len(responses) + (IF in_flight THEN 1 ELSE 0)

\* C7 as stated: fetch_content never raises out of its layer; every failure
\* path, the invalid URL and the uninitialised session included, returns an
\* outcome with status "error" and the error field set.
C7_NeverRaises ==
    f_pc = "done" =>
        /\ outcome.kind = "return"
        /\ (InvalidUrl(f_url) \/ ~session) =>
               (outcome.status = "error" /\ outcome.error # NoText)

\* C7 amended: fetch_content raises in exactly two cases, the invalid URL
\* (ValueError) and the uninitialised session (RuntimeError). Every other
\* failure path (a GET that ends in a non-200 status or an exception, a body
\* that cannot be read, a provider reply without a result) returns an outcome
\* with status "error" and the error field set.
C7_RaisesOnlyInvalidUrlOrNoSession ==
    f_pc = "done" =>
        IF InvalidUrl(f_url)
        THEN outcome.kind = "raise" /\ outcome.exc = "ValueError"
        ELSE IF ~session
        THEN outcome.kind = "raise" /\ outcome.exc = "RuntimeError"
        ELSE /\ outcome.kind = "return"
             /\ outcome.status \in {"success", "error"}
             /\ (outcome.status = "error") = (outcome.error # NoText)
             /\ ( /\ responses # <<>>
                  /\ (Last(responses).exc \/ Last(responses).status # 200) )
                => outcome.status = "error"

C7_Witness ==
    /\ f_pc = "done"
    /\ session
    /\ outcome = [kind |-> "return", status |-> "error", source |-> "direct_fetch",
                  error |-> TransportText, exc |-> ""]

\* C8: a URL that lacks a scheme or a host makes fetch_content raise
\* ValueError("Invalid URL format: <url>") at once, and no request is ever
\* issued for it: no POST to the fetch-proxy service, no GET.
C8_InvalidUrlRaisesWithoutRequest ==
    (urlparse(f_url).scheme = "" \/ urlparse(f_url).netloc = "") =>
        /\ f_pc \in {"call", "done"}
        /\ posts = 0
        /\ Gets = 0
        /\ sleeps = <<>>
        /\ f_pc = "done" =>
              outcome = [kind |-> "raise", status |-> "", source |-> "",
                         error |-> <<"Invalid URL format: ", f_url>>,
                         exc |-> "ValueError"]

C8_Witness ==
    /\ f_pc = "done"
    /\ urlparse(f_url).scheme # ""
    /\ urlparse(f_url).netloc = ""
    /\ mcp_server_url
    /\ outcome.exc = "ValueError"

\* The parts of C9 about the retries: at most 3 GETs; a GET after the first
\* only follows a 429, by a retry of which fewer than 2 were made before;
\* the wait before retry k (k = 0, 1) is 2^k seconds; after the third 429 in
\* a row the outcome is the returned failure "HTTP 429: Too Many Requests".
C9_RetryPolicy ==
    /\ Gets <= 3
    /\ \A k \in 2..Gets :
          ~responses[k - 1].exc /\ responses[k - 1].status = 429
    /\ Len(sleeps) <= 2
    /\ Len(sleeps) = (IF f_pc = "sleep" THEN Gets ELSE IF Gets = 0 THEN 0 ELSE Gets - 1)
    /\ \A k \in 1..Len(sleeps) : sleeps[k] = (IF k = 1 THEN 1 ELSE 2)
    /\ ( /\ Len(responses) = 3
         /\ \A k \in 1..3 : ~responses[k].exc /\ responses[k].status = 429 )
       => /\ f_pc = "done"
          /\ outcome.kind = "return"
          /\ outcome.status = "error"
          /\ outcome.error = <<"HTTP ", "429", ": Too Many Requests - Rate limited">>

\* a GET got 200 and the fetch is over
Got200 ==
    /\ f_pc = "done"
    /\ responses # <<>>
    /\ ~Last(responses).exc
    /\ Last(responses).status = 200

\* C9 as stated: the retry policy, and a 200 on any attempt yields a success
\* outcome.
C9_RetryAnd200Succeeds ==
    /\ C9_RetryPolicy
    /\ Got200 => (outcome.kind = "return" /\ outcome.status = "success")

\* C9 amended: the retry policy as stated; a 200 on any attempt yields a
\* success outcome when its body is read, and the returned failure outcome
\* carrying the exception's message when reading the body raises; nothing is
\* raised in either case.
C9_RetryAnd200SucceedsIfBodyRead ==
    /\ C9_RetryPolicy
    /\ Got200 =>
          /\ outcome.kind = "return"
          /\ outcome.source = "direct_fetch"
          /\ \/ outcome.status = "success" /\ outcome.error = NoText
             \/ outcome.status = "error" /\ outcome.error = BodyText

C9_Witness ==
    /\ f_pc = "done"
    /\ Len(responses) = 3
    /\ responses[1].status = 429
    /\ responses[2].status = 429
    /\ responses[3].status = 200
    /\ sleeps = <<1, 2>>
    /\ outcome.status = "success"

\* response k ends the attempt without a retry: an exception, or a status
\* other than 200 and 429
Terminal(r) == r.exc \/ r.status \notin {200, 429}

\* the status-specific reasons of mcp_client.py:147-158
ReasonOf(status) ==
    CASE status = 403 -> <<": Forbidden - Website blocked automated access">>
      [] status = 404 -> <<": Not Found - URL does not exist">>
      [] status = 500 -> <<": Server Error - Website experiencing issues">>
      [] status = 503 -> <<": Service Unavailable - Website temporarily down">>
      [] status = 204 -> <<": ", "No Content">>
      [] status = 418 -> <<": ", "I'm a Teapot">>

\* C10 as stated: a status other than 200 and 429, and a transport
\* exception, mean exactly one GET, no retry, and a failure outcome whose
\* error text begins with the status code and a status-specific reason.
C10_OneGetAndStatusText ==
    \A k \in 1..Len(responses) :
        Terminal(responses[k]) =>
            /\ Len(responses) = 1
            /\ ~in_flight
            /\ sleeps = <<>>
            /\ outcome.kind = "return"
            /\ outcome.status = "error"
            /\ Len(outcome.error) >= 2
            /\ outcome.error[1] = "HTTP "

\* C10 amended: the GET that gets a status other than 200 and 429, or a
\* transport exception, is the last GET of the fetch (the only one when it is
\* the first attempt; one more than the 429 retries before it otherwise), and
\* the fetch returns a failure outcome at once; for a status the error text
\* is "HTTP <code>" followed by the status-specific reason, for a transport
\* exception it is the exception's own message, without a status code.
C10_NoRetryAndText ==
    \A k \in 1..Len(responses) :
        Terminal(responses[k]) =>
            /\ k = Len(responses)
            /\ ~in_flight
            /\ f_pc = "done"
            /\ Len(sleeps) = k - 1
            /\ \A j \in 1..(k - 1) : responses[j].status = 429
            /\ outcome.kind = "return"
            /\ outcome.status = "error"
            /\ outcome.source = "direct_fetch"
            /\ IF responses[k].exc
               THEN outcome.error = <<"Cannot connect to host">>
               ELSE outcome.error =
                        <<"HTTP ", ToString(responses[k].status)>>
                            \o ReasonOf(responses[k].status)

C10_Witness ==
    /\ f_pc = "done"
    /\ Len(responses) = 1
    /\ responses[1] = [exc |-> FALSE, status |-> 404]
    /\ outcome.error = <<"HTTP ", "404", ": Not Found - URL does not exist">>

\* -------------------------------------------- claims about the orchestrator

Indices == DOMAIN task

Done(i) == task[i].pc = "done"

\* the pipelines that started analyze_url and have not finished it
InFlight == {i \in Indices : task[i].pc \in {"fetching", "closing", "analyzing"}}

\* the pipelines whose HTTP session is open
OpenSessions == {i \in Indices : task[i].session = "open"}

\* the pipelines that hold an admission slot
Holders == {i \in Indices : task[i].pc \in {"woken", "fetching", "closing", "analyzing"}}

\* C1: whatever the URL list (duplicates, the empty list), parallel or not,
\* and whatever the order in which the pipelines complete, the list
\* batch_analyze_urls returns has one result per URL, and results[i] is the
\* result of the pipeline of urls[i], carrying that URL.
C1_ResultsAlignedWithUrls ==
    b_pc = "returned" =>
        /\ Len(results) = Len(urls)
        /\ \A i \in 1..Len(urls) :
              /\ results[i].url = urls[i]
              /\ results[i] = task[i].ret.result

C1_Witness ==
    /\ b_pc = "returned"
    /\ parallel_processing
    /\ Len(urls) >= 2
    /\ urls[1] # urls[2]
    /\ completed[1] = 2
    /\ results[1].url = urls[1]
    /\ results[2].url = urls[2]

\* C2: in every batch response the API layer builds, successful_analyses +
\* failed_analyses = total_urls = len(results), whatever the statuses
\* (success, error, partial_error) of the results.
C2_CountsAddUp ==
    (http_status = 200 /\ entry # "direct") =>
        /\ response.successful_analyses + response.failed_analyses = response.total_urls
        /\ response.total_urls = Len(response.results)

\* C3: in a parallel batch with max_concurrent >= 1 the number of pipelines
\* that started analyze_url and have not finished it never exceeds
\* max_concurrent; with max_concurrent = 1 no two pipelines are fetching at
\* the same time.
C3_AtMostMaxConcurrentInFlight ==
    (b_pc = "running" /\ parallel_processing /\ max_concurrent >= 1) =>
        /\ Cardinality(InFlight) <= max_concurrent
        /\ max_concurrent = 1 =>
              Cardinality({i \in Indices : task[i].pc = "fetching"}) <= 1

C3_Witness ==
    /\ b_pc = "running"
    /\ parallel_processing
    /\ max_concurrent = 2
    /\ Cardinality(InFlight) = 2
    /\ \E i \in Indices : task[i].pc = "waiting"

\* min(max(m, 1), 10)
ClampedTo1And10(m) == IF m < 1 THEN 1 ELSE IF m > 10 THEN 10 ELSE m

\* C4 as stated: for every max_concurrent given to a parallel batch, the
\* number of admission slots created is that value clamped to [1, 10].
C4_SlotsClamped ==
    (parallel_processing /\ b_pc \in {"running", "returned"}) =>
        /\ sem_created
        /\ sem_initial = ClampedTo1And10(req_max_concurrent)

\* C4 amended: batch_analyze_urls creates exactly as many admission slots as
\* the max_concurrent it is given (and raises, creating none, when that is
\* negative); the clamp to [1, 10] is applied by /upload-urls-advanced alone,
\* before the call, so through that endpoint the number of slots is the
\* form's max_concurrent clamped to [1, 10].
C4_SlotsAsGivenClampedByAdvanced ==
    /\ (parallel_processing /\ b_pc \in {"running", "returned"}) =>
          /\ sem_created
          /\ sem_initial = max_concurrent
          /\ sem_initial >= 0
    /\ (entry = "upload-urls-advanced" /\ b_pc \in {"running", "returned"}) =>
          /\ sem_initial = ClampedTo1And10(req_max_concurrent)
          /\ sem_initial \in 1..10
    /\ (entry = "direct" /\ b_pc \in {"running", "returned"}) =>
          max_concurrent = req_max_concurrent
    /\ (entry = "direct" /\ parallel_processing /\ req_max_concurrent < 0
          /\ b_pc # "request") =>
          (b_pc = "raised" /\ ~sem_created)

C4_Witness ==
    /\ entry = "upload-urls-advanced"
    /\ req_max_concurrent = 11
    /\ b_pc = "running"
    /\ sem_created
    /\ sem_initial = 10

\* the pipeline of urls[i] ended in a failure of its own
Failed(i) == Done(i) /\ task[i].raised \cap {"fetch", "llm", "build"} # {}

\* a pipeline that is not over and can take its next step
Runnable(j) ==
    \/ task[j].pc \in {"woken", "fetching", "closing", "analyzing"}
    \/ /\ task[j].pc = "created"
       /\ j = next_start
       /\ (parallel_processing \/ \A k \in 1..(j - 1) : Done(k))

\* C5: a failure in one URL's pipeline (a fetch failure, an LLM exception, a
\* result-construction error) never keeps another pipeline from running: the
\* failed pipeline returns a result at its own index and gives its slot
\* back, so that while some pipeline is not over one of them can take a
\* step and a queued pipeline waits only for slots held by pipelines still
\* running (or for a pipeline queued before it that is about to resume and
\* pass a free slot on); when the batch returns, every URL has exactly one result, the
\* failing URL's non-success result at that URL's index.
C5_FailureIsolation ==
    /\ b_pc = "raised" => \A i \in Indices : task[i].pc = "created"
    /\ \A i \in Indices :
          Failed(i) =>
              /\ task[i].ret.kind = "return"
              /\ task[i].ret.result.url = urls[i]
              /\ task[i].ret.result.status \in {"error", "partial_error"}
              /\ i \notin Holders
    /\ ((\E i \in Indices : Failed(i)) /\ b_pc = "running") =>
          /\ (\E j \in Indices : ~Done(j)) => (\E j \in Indices : Runnable(j))
          /\ \A j \in Indices :
                task[j].pc = "waiting" =>
                    \/ sem_value = 0 /\ Cardinality(Holders) = sem_initial
                    \/ \E k \in 1..(j - 1) : task[k].pc = "woken"
    /\ b_pc = "returned" =>
          /\ Len(results) = Len(urls)
          /\ \A i \in Indices :
                /\ Done(i)
                /\ Failed(i) => (results[i].status # "success"
                                 /\ results[i].url = urls[i])

C5_Witness ==
    /\ b_pc = "returned"
    /\ parallel_processing
    /\ max_concurrent = 1
    /\ Len(urls) >= 2
    /\ Failed(1)
    /\ results[1].status = "error"
    /\ results[2].status = "success"

\* C6 as stated: analyze_url never raises; an exception at any step (fetch,
\* text or metadata extraction, LLM analysis, result construction) becomes a
\* returned result with status "error" whose key_insights carries the
\* exception message.
C6_AnyExceptionGivesErrorResult ==
    \A i \in Indices :
        Done(i) =>
            /\ task[i].ret.kind = "return"
            /\ task[i].raised # {} =>
                  /\ task[i].ret.result.status = "error"
                  /\ Len(task[i].ret.result.key_insights) = 1
                  /\ task[i].ret.result.key_insights[1][1] = "Error: "

\* C6 amended: analyze_url never raises. An exception of the fetch (raised
\* by fetch_content, or made from a failure outcome) or of the LLM call
\* becomes a returned result with status "error" whose key_insights is
\* ["Error: <message>"]; an exception during result construction is caught
\* inside _build_analysis_result and becomes a returned result with status
\* "partial_error" whose key_insights is ["Processing error: <message>"]; an
\* exception inside text or metadata extraction is absorbed by the extractor
\* and leaves the result's status as the later steps decide it.
C6_NeverRaisesErrorOrPartialError ==
    \A i \in Indices :
        Done(i) =>
            LET r == task[i].ret.result
                raised == task[i].raised
            IN  /\ task[i].ret.kind = "return"
                /\ r.url = urls[i]
                /\ ("fetch" \in raised /\ task[i].fetch.kind = "raise") =>
                      /\ r.status = "error"
                      /\ r.key_insights = << <<"Error: ", "Invalid URL format: ", urls[i]>> >>
                /\ ("fetch" \in raised /\ task[i].fetch.kind = "return") =>
                      /\ r.status = "error"
                      /\ r.key_insights =
                            << <<"Error: ", "Failed to fetch content: ">>
                                   \o task[i].fetch.error >>
                /\ "llm" \in raised =>
                      /\ r.status = "error"
                      /\ r.key_insights = << <<"Error: ", "Connection error.">> >>
                /\ "build" \in raised =>
                      /\ r.status = "partial_error"
                      /\ Len(r.key_insights) = 1
                      /\ r.key_insights[1][1] = "Processing error: "
                /\ raised \subseteq {"extract"} => r.status = "success"
                /\ r.status = "success" => raised \subseteq {"extract"}

C6_Witness ==
    \E i \in Indices :
        /\ Done(i)
        /\ task[i].raised = {"llm"}
        /\ task[i].ret.kind = "return"
        /\ task[i].ret.result.status = "error"
        /\ task[i].ret.result.key_insights = << <<"Error: ", "Connection error.">> >>

\* ------------------------------------- further claims about the fetcher

\* C11: the fetcher treats every status from 200 to 299 as success (the
\* fetch goes on to read the body and, the body read, returns a success
\* outcome), 429 as retryable (while retries are left, a wait and a further
\* GET follow) and every other status as the failure that ends the attempt.
C11_Every2xxIsSuccess ==
    \A k \in 1..Len(responses) :
        ~responses[k].exc =>
            LET status == responses[k].status
            IN  /\ status \in 200..299 =>
                      /\ k = Len(responses)
                      /\ f_pc \in {"body", "done"}
                      /\ f_pc = "done" =>
                            \/ outcome.status = "success"
                            \/ outcome.error = BodyText
                /\ (status = 429 /\ k <= MaxRetries) =>
                      (f_pc = "sleep" \/ in_flight \/ k < Len(responses))
                /\ (status \notin 200..299 /\ (status # 429 \/ k > MaxRetries)) =>
                      /\ k = Len(responses)
                      /\ f_pc = "done"
                      /\ outcome.status = "error"

\* C12: with a fetch-proxy service configured, a provider call that did not
\* give a result (an exception, a status other than 200, a body that does
\* not parse, a 200 reply with an error or without a result) is followed by
\* a direct GET of the URL, whose outcome is what fetch_content returns.
C12_ProviderFailureFallsBackToDirect ==
    (f_pc = "done" /\ posts > 0) =>
        \/ outcome = Success("mcp_server")
        \/ /\ responses # <<>>
           /\ outcome.kind = "return"
           /\ outcome.source = "direct_fetch"

\* ---------------------------------- further claims about the orchestrator

\* C13: when the fetch of a URL returns an outcome with status "error",
\* analyze_url stops there: nothing is extracted and the LLM is not called
\* for that URL, and the result it returns has status "error" and
\* key_insights ["Error: Failed to fetch content: <the fetcher's reason>"],
\* which for HTTP 404 contains "Not Found".
C13_FetchErrorShortCircuits ==
    \A i \in Indices :
        (task[i].fetch.kind = "return" /\ task[i].fetch.status = "error") =>
            /\ task[i].pc \in {"closing", "done"}
            /\ ~task[i].extract_exc
            /\ Done(i) =>
                  /\ task[i].raised = {"fetch"}
                  /\ task[i].ret.kind = "return"
                  /\ task[i].ret.result.url = urls[i]
                  /\ task[i].ret.result.status = "error"
                  /\ task[i].ret.result.key_insights =
                        << <<"Error: ", "Failed to fetch content: ">>
                               \o task[i].fetch.error >>
                  /\ task[i].fetch.error = ErrorMsg(404) =>
                        \E p \in 1..Len(task[i].ret.result.key_insights[1]) :
                            task[i].ret.result.key_insights[1][p] =
                                ": Not Found - URL does not exist"

C13_Witness ==
    \E i \in Indices :
        /\ Done(i)
        /\ task[i].fetch = Failure("direct_fetch", ErrorMsg(404))
        /\ task[i].ret.result.status = "error"
        /\ task[i].ret.result.key_insights =
              << <<"Error: ", "Failed to fetch content: ", "HTTP ", "404",
                   ": Not Found - URL does not exist">> >>

\* the request came through one of the handlers that answer with a
\* BatchAnalysisResult
BatchHandlers == {"batch-analyze", "upload-urls", "upload-urls-advanced"}

\* C14: whatever the mix of statuses among the results, the handler answers
\* with a batch response (status 200, no server error) whose
\* category_distribution counts exactly the results with status "success",
\* by primary_category; the counts add up to successful_analyses.
C14_DistributionCountsSuccesses ==
    (entry \in BatchHandlers /\ b_pc = "returned") =>
        LET ok == {k \in DOMAIN results : results[k].status = "success"}
            dist == response.category_distribution
        IN  /\ http_status = 200
            /\ response.successful_analyses = Cardinality(ok)
            /\ DOMAIN dist = {results[k].primary_category : k \in ok}
            /\ \A c \in DOMAIN dist :
                  dist[c] = Cardinality({k \in ok : results[k].primary_category = c})

\* C15: in every batch response average_quality_score is None exactly when
\* no result has status "success", and is otherwise the mean of
\* content_quality_score over all the successful results, those with score
\* 0 included.
C15_AverageOverSuccesses ==
    (entry \in BatchHandlers /\ b_pc = "returned" /\ http_status = 200) =>
        LET ok == Successful(results)
            avg == response.average_quality_score
        IN  IF ok = <<>>
            THEN avg.none
            ELSE /\ ~avg.none
                 /\ avg.sum * Len(ok) = SumQuality(ok) * avg.count

\* C16: a POST /batch-analyze with more URLs than max_batch_size is answered
\* with status 400, and no URL of the request is fetched or analyzed.
C16_TooManyUrlsRejectedWith400 ==
    (entry = "batch-analyze" /\ Len(req_urls) > MaxBatchSize /\ b_pc # "request") =>
        /\ b_pc = "rejected"
        /\ task = <<>>
        /\ http_status = 400

\* C17: a POST /analyze with a well-formed URL whose analysis cannot be
\* completed (the fetch fails, the LLM call fails) is answered with an HTTP
\* error status, 422 or 500, and not with 200.
C17_FailedAnalysisIsHttpError ==
    ( /\ entry = "analyze"
      /\ b_pc = "returned"
      /\ IsHttpUrl(req_urls[1])
      /\ task[1].raised \cap {"fetch", "llm"} # {} ) =>
        http_status \in {422, 500}

\* the URLs an upload handler has after parsing its input
ParsedUrls ==
    IF entry = "upload-urls-advanced" THEN UniqueUrls(req_urls, <<>>, {}) ELSE req_urls

\* C18: an upload handler answers an input error it detects (here: no valid
\* URL, more URLs than max_batch_size) with status 400, and starts no
\* analysis for the request.
C18_UploadInputErrorsAre400 ==
    ( /\ entry \in {"upload-urls", "upload-urls-advanced"}
      /\ b_pc # "request"
      /\ (Len(ParsedUrls) = 0 \/ Len(ParsedUrls) > MaxBatchSize) ) =>
        /\ b_pc = "rejected"
        /\ task = <<>>
        /\ http_status = 400

\* C19: with parallel_processing false the URLs are processed strictly one
\* at a time in input order: the pipeline of urls[i + 1] does not start
\* before the pipeline of urls[i] is over, so at most one is in flight, they
\* complete in input order, and no semaphore is involved.
C19_SequentialOneAtATime ==
    (~parallel_processing /\ b_pc \in {"running", "returned", "raised"}) =>
        /\ Cardinality(InFlight) <= 1
        /\ \A i \in Indices :
              task[i].pc # "created" => \A k \in 1..(i - 1) : Done(k)
        /\ completed = [k \in 1..Len(completed) |-> k]
        /\ ~sem_created
        /\ waiters = <<>>

C19_Witness ==
    /\ ~parallel_processing
    /\ b_pc = "running"
    /\ Len(urls) = 3
    /\ Done(1)
    /\ task[2].pc = "fetching"
    /\ task[3].pc = "created"

\* the pipeline of urls[k] was given an admission slot
Admitted(k) == task[k].pc \in {"woken", "fetching", "closing", "analyzing", "done"}

\* the pipeline of urls[k] has entered analyze_url
Started(k) == task[k].pc \in {"fetching", "closing", "analyzing", "done"}

\* C20: in a parallel batch admission is first-come in input order: for
\* i < j the pipeline of urls[i] is given its slot, and enters analyze_url,
\* no later than the pipeline of urls[j], whatever the order in which the
\* earlier pipelines complete; the queue holds the waiting pipelines in
\* input order.
C20_AdmissionInInputOrder ==
    parallel_processing =>
        /\ \A i, j \in Indices :
              i < j => /\ Admitted(j) => Admitted(i)
                       /\ Started(j) => Started(i)
        /\ \A p, q \in 1..Len(waiters) : p < q => waiters[p] < waiters[q]

C20_Witness ==
    /\ parallel_processing
    /\ max_concurrent = 2
    /\ Len(urls) = 3
    /\ completed = <<2>>
    /\ task[1].pc = "fetching"
    /\ task[3].pc = "fetching"

\* ------------------------------------------------ claims C21 to C30

\* C21: in every state of a parallel batch the free slots of the semaphore
\* plus the pipelines that hold a slot make up the number of slots the
\* semaphore was created with, which is max_concurrent; a pipeline gives its
\* slot back when it ends, with a success or with a failure, so that a batch
\* that has returned has all its slots free.
C21_SlotsConserved ==
    (parallel_processing /\ sem_created) =>
        /\ sem_initial = max_concurrent
        /\ sem_value >= 0
        /\ sem_value + Cardinality(Holders) = sem_initial
        /\ \A i \in Indices : Done(i) => i \notin Holders
        /\ b_pc = "returned" => sem_value = max_concurrent

\* a parallel batch over two slots has returned, a pipeline of it failed
\* and another succeeded after queueing for a slot
C21_Witness ==
    /\ parallel_processing
    /\ sem_created
    /\ b_pc = "returned"
    /\ max_concurrent = 2
    /\ Len(urls) = 3
    /\ sem_value = 2
    /\ \E i \in Indices : Failed(i)
    /\ \E i \in Indices : Done(i) /\ ~Failed(i)

\* C22: every fetch and every LLM call ends, so a batch that is running is
\* never stuck: whatever the URL list and whatever max_concurrent value
\* batch_analyze_urls was entered with, values below 1 included, some
\* pipeline can take its next step or the batch can return.
C22_RunningBatchIsNeverStuck ==
    b_pc = "running" => ENABLED Next

\* how far a pipeline is: created (Pending), queueing for a slot, in
\* fetch_content (Fetching), leaving the session with the fetch outcome
\* (FetchFailed or Fetched), extracted and in the LLM call (Analyzing), over
PcRank(pc) ==
    CASE pc = "created" -> 0
      [] pc = "waiting" -> 1
      [] pc = "woken" -> 2
      [] pc = "fetching" -> 3
      [] pc = "closing" -> 4
      [] pc = "analyzing" -> 5
      [] pc = "done" -> 6

\* C23: a pipeline only moves forward through created, fetching, fetched or
\* fetch-failed, analyzing, done, and a pipeline that is over never changes
\* again; one analyze_url call makes exactly one fetch_content call and at
\* most one LLM call, and the LLM is called only after a fetch that
\* succeeded and the extraction that follows it.
C23_PipelineOnlyAdvances ==
    /\ [](\A i \in Indices :
            /\ task[i].fetch_calls = (IF PcRank(task[i].pc) >= 3 THEN 1 ELSE 0)
            /\ task[i].llm_calls <= 1
            /\ (task[i].llm_calls = 1) = (PcRank(task[i].pc) >= 5 /\ "fetch" \notin task[i].raised)
            /\ task[i].llm_calls = 1 =>
                  /\ task[i].fetch.kind # "raise"
                  /\ task[i].fetch.status = "success"
            /\ (task[i].pc = "analyzing") => task[i].llm_calls = 1)
    /\ [][\A i \in Indices :
            /\ PcRank(task'[i].pc) >= PcRank(task[i].pc)
            /\ task[i].fetch # Pending => task'[i].fetch = task[i].fetch
            /\ Done(i) => task'[i] = task[i]]_vars

\* a batch has returned in which one pipeline was fetched, analyzed by the
\* LLM and succeeded, and another ended at its failed fetch
C23_Witness ==
    /\ b_pc = "returned"
    /\ \E i \in Indices :
          /\ Done(i)
          /\ task[i].llm_calls = 1
          /\ task[i].ret.kind = "return"
          /\ task[i].ret.result.status = "success"
    /\ \E i \in Indices :
          /\ Done(i)
          /\ task[i].fetch.status = "error"
          /\ task[i].llm_calls = 0
          /\ task[i].fetch_calls = 1

\* C25: the session a pipeline opens for its fetch is closed, whether the
\* fetch succeeded, returned a failure or raised, before the pipeline's
\* extraction and LLM call begin; a pipeline opens one session and closes it
\* once, so the open sessions are never more than the pipelines in flight,
\* and none is open when the batch has returned.
C25_SessionClosedBeforeAnalysis ==
    /\ [](/\ \A i \in Indices :
                /\ task[i].pc \in {"analyzing", "done"} => task[i].session = "closed"
                /\ task[i].pc \in {"fetching", "closing"} => task[i].session = "open"
                /\ task[i].pc \in {"created", "waiting", "woken"} => task[i].session = "none"
          /\ OpenSessions \subseteq InFlight
          /\ Cardinality(OpenSessions) <= Cardinality(InFlight)
          /\ b_pc \in {"returned", "raised"} => OpenSessions = {})
    /\ [][\A i \in Indices :
            /\ task[i].session = "closed" => task'[i].session = "closed"
            /\ task[i].session = "open" => task'[i].session # "none"]_vars

\* a batch has returned in which one fetch raised, one returned a failure
\* and one succeeded and went on to the LLM, and every session is closed
C25_Witness ==
    /\ b_pc = "returned"
    /\ \E i \in Indices : task[i].fetch.kind = "raise" /\ task[i].session = "closed"
    /\ \E i \in Indices : task[i].fetch.status = "error" /\ task[i].session = "closed"
    /\ \E i \in Indices :
          /\ task[i].fetch.status = "success"
          /\ task[i].llm_calls = 1
          /\ task[i].session = "closed"

\* a reply none of whose dicts is null
NoNull(d) ==
    /\ "semantic_analysis" \in DOMAIN d => d.semantic_analysis.type = "dict"
    /\ "sentiment" \in DOMAIN d => d.sentiment.type = "dict"

\* the value of field key of reply d, or default when d does not have it
FieldOr(d, key, default) == IF key \in DOMAIN d THEN d[key] ELSE default

\* C24: for a reply that is a JSON object with any subset of the schema's
\* fields absent, at the top level or inside semantic_analysis and
\* sentiment, result construction does not raise: it returns a result with
\* status "success" in which a field the reply has is taken over and an
\* absent field has its default (primary_category "other",
\* category_confidence 0.0, the lists empty, sentiment overall "neutral").
C24_AbsentFieldsTakeDefaults ==
    (fn = "_build_analysis_result" /\ fn_pc = "done" /\ NoNull(arg.ai_analysis)) =>
        LET d == arg.ai_analysis
            sem == FieldOr(d, "semantic_analysis", [type |-> "dict"])
            sen == FieldOr(d, "sentiment", [type |-> "dict"])
        IN  /\ value.url = arg.url
            /\ value.status = "success"
            /\ value.primary_category = FieldOr(d, "primary_category", "other")
            /\ value.category_confidence = FieldOr(d, "category_confidence", 0)
            /\ value.secondary_categories = FieldOr(d, "secondary_categories", <<>>)
            /\ value.key_insights = FieldOr(d, "key_insights", <<>>)
            /\ value.content_quality_score = FieldOr(d, "content_quality_score", 0)
            /\ value.semantic_analysis.main_topics = FieldOr(sem, "main_topics", <<>>)
            /\ value.semantic_analysis.entities = FieldOr(sem, "entities", <<>>)
            /\ value.semantic_analysis.themes = FieldOr(sem, "themes", <<>>)
            /\ value.semantic_analysis.semantic_keywords =
                  FieldOr(sem, "semantic_keywords", <<>>)
            /\ value.sentiment.overall = FieldOr(sen, "overall", "neutral")
            /\ value.sentiment.confidence = FieldOr(sen, "confidence", 0)

\* the result was built from a reply without primary_category,
\* category_confidence and key_insights, whose semantic_analysis has no
\* main_topics and whose sentiment has no overall
C24_Witness ==
    /\ fn = "_build_analysis_result"
    /\ fn_pc = "done"
    /\ DOMAIN arg.ai_analysis = {"semantic_analysis", "sentiment", "content_summary"}
    /\ "main_topics" \notin DOMAIN arg.ai_analysis.semantic_analysis
    /\ "entities" \in DOMAIN arg.ai_analysis.semantic_analysis
    /\ "overall" \notin DOMAIN arg.ai_analysis.sentiment
    /\ value.status = "success"
    /\ value.primary_category = "other"
    /\ value.sentiment.overall = "neutral"
    /\ value.semantic_analysis.main_topics = <<>>
    /\ value.semantic_analysis.entities = <<"entity">>

\* the part of a prompt between its two rules: the text that is submitted
SubmittedText(prompt) ==
    LET rules == {p \in 1..Len(prompt) : prompt[p] = "====="}
        first == CHOOSE p \in rules : \A q \in rules : p <= q
        last == CHOOSE p \in rules : \A q \in rules : q <= p
    IN  SubSeq(prompt, first + 1, last - 1)

\* C26: for a cleaned text t and a configured maximum M, the text in the
\* prompt is t itself, without the marker, when len(t) <= M, and is the
\* first M characters of t followed by one marker
\* "... [content truncated]" when len(t) > M.
C26_TruncatedToMaxWithMarker ==
    (fn = "_build_analysis_prompt" /\ fn_pc = "done") =>
        LET t == arg.content
            M == arg.max_content_length
            text == SubmittedText(value)
            markers == {p \in 1..Len(text) : text[p] = "... [content truncated]"}
        IN  IF Len(t) <= M
            THEN /\ text = t
                 /\ markers = {}
            ELSE /\ Len(text) = M + 1
                 /\ \A p \in 1..M : text[p] = t[p]
                 /\ markers = {M + 1}

\* a text of three characters was submitted under a maximum of two: its
\* first two characters and the marker
C26_Witness ==
    /\ fn = "_build_analysis_prompt"
    /\ fn_pc = "done"
    /\ arg.max_content_length = 2
    /\ arg.content = <<"a", "b", "a">>
    /\ SubmittedText(value) = <<"a", "b", "... [content truncated]">>

\* C27: batch_analyze_content, given N items, returns a list of N entries
\* in the order of the items, whatever the order in which the calls end:
\* entry i is the reply of item i's call if that call returned, and the
\* marker {error, url} with item i's url if it raised; a call that raises
\* neither aborts the group nor loses another item's reply.
C27_FanOutAlignedWithItems ==
    (fn = "batch_analyze_content" /\ fn_pc = "done") =>
        /\ Len(value.processed_results) = Len(arg)
        /\ \A i \in DOMAIN arg :
              IF value.results[i].kind = "raise"
              THEN /\ DOMAIN value.processed_results[i] = {"error", "url"}
                   /\ value.processed_results[i].url = arg[i].url
                   /\ value.processed_results[i].error = value.results[i].text
              ELSE /\ value.processed_results[i] = value.results[i].reply
                   /\ value.processed_results[i].content_summary = arg[i].content

\* three items of which the second call raised: its entry is the marker
\* with its url, the other two entries are their items' replies
C27_Witness ==
    /\ fn = "batch_analyze_content"
    /\ fn_pc = "done"
    /\ Len(arg) = 3
    /\ arg[1].content # arg[3].content
    /\ value.results[1].kind = "return"
    /\ value.results[2].kind = "raise"
    /\ value.results[3].kind = "return"
    /\ value.processed_results[2] = [error |-> LlmText, url |-> arg[2].url]
    /\ value.processed_results[1].content_summary = arg[1].content
    /\ value.processed_results[3].content_summary = arg[3].content

\* the words of a sequence of text pieces
WordsOf(pieces) == {pieces[p] : p \in DOMAIN pieces} \ {" "}

\* the elements of the document that are not inside a script, style, nav,
\* footer or header element (and are none themselves), in document order
RECURSIVE Kept(_)
Kept(ns) ==
    IF ns = <<>>
    THEN <<>>
    ELSE (IF Head(ns).tag \in {"script", "style", "nav", "footer", "header"}
          THEN <<>>
          ELSE << [Head(ns) EXCEPT !.kids = Kept(@)] >>)
         \o Kept(Tail(ns))

\* the selectors, by their place in the priority list, that match some
\* element of the tree
MatchingSelectors(ns) ==
    {s \in DOMAIN main_selectors : select_one(main_selectors[s], ns) # <<>>}

\* the element the first matching selector selects, as a list of one
FirstMatch(ns) ==
    LET s == CHOOSE s \in MatchingSelectors(ns) :
                 \A r \in MatchingSelectors(ns) : s <= r
    IN  select_one(main_selectors[s], ns)

\* C28: when the parser does not fail, the extracted text is the text of the
\* element matched by the first selector, in the order main, article,
\* #content, .content, #main, .main, .post-content, .entry-content, that
\* matches any element, even if a later selector matches too; it is the
\* text of the body only if no selector matches, and the text of the
\* whole document only if there is no body either.
C28_FirstMatchingSelectorElseBody ==
    (fn = "_extract_text_content" /\ fn_pc = "done" /\ ~arg.parser_raises) =>
        LET doc == arg.html_content
            tree == Kept(doc.nodes)
        IN  /\ value.kind = "text"
            /\ value.words =
                  CleanUp(IF MatchingSelectors(tree) # {}
                          THEN GetText(FirstMatch(tree))
                          ELSE IF doc.body
                          THEN GetText(tree)
                          ELSE doc.head \o GetText(tree))

\* the words located inside script, style, nav, footer or header elements
\* of a tree (inside tells whether the tree is itself inside one)
RECURSIVE WordsInsideRemoved(_, _)
WordsInsideRemoved(ns, inside) ==
    IF ns = <<>>
    THEN {}
    ELSE LET here == inside \/ Head(ns).tag \in {"script", "style", "nav",
                                                  "footer", "header"}
         IN  (IF here THEN WordsOf(Head(ns).text) ELSE {})
                 \cup WordsInsideRemoved(Head(ns).kids, here)
                 \cup WordsInsideRemoved(Tail(ns), inside)

\* all the words of a document
WordsOfDocument(doc) == WordsOf(doc.head \o GetText(doc.nodes))

\* the words that appear in what the extraction returned: those of the text,
\* or those of the raw HTML
WordsOfOutput(v) ==
    IF v.kind = "raw" THEN WordsOfDocument(v.html) ELSE WordsOf(v.words)

\* the words of the element the first matching selector selects that are
\* not inside a removed element
WordsOfSelected(doc) ==
    IF MatchingSelectors(Kept(doc.nodes)) = {}
    THEN {}
    ELSE WordsOf(GetText(FirstMatch(Kept(doc.nodes))))

\* C29 as stated: for every HTML document, no text located inside a script,
\* style, nav, footer or header element appears in what the extraction
\* returns, and the text of the selected main content element does.
C29_RemovedTextNeverAppears ==
    (fn = "_extract_text_content" /\ fn_pc = "done") =>
        /\ WordsInsideRemoved(arg.html_content.nodes, FALSE)
              \cap WordsOfOutput(value) = {}
        /\ WordsOfSelected(arg.html_content) \subseteq WordsOfOutput(value)

\* C29: for every HTML document that the parser handles without raising, no
\* text located inside a script, style, nav, footer or header element
\* appears in the extracted text, and the text of the selected main content
\* element (outside such elements) does; when parsing raises, the raw HTML
\* is returned unchanged.
C29_RemovedTextNeverAppearsUnlessRaw ==
    (fn = "_extract_text_content" /\ fn_pc = "done") =>
        IF arg.parser_raises
        THEN value = [kind |-> "raw", html |-> arg.html_content]
        ELSE /\ value.kind = "text"
             /\ WordsInsideRemoved(arg.html_content.nodes, FALSE)
                   \cap WordsOfOutput(value) = {}
             /\ WordsOfSelected(arg.html_content) \subseteq WordsOfOutput(value)

\* the page of the test: a nav with text, then a main with its text and a
\* script inside; the extracted text is the text of the main
C29_Witness ==
    /\ fn = "_extract_text_content"
    /\ fn_pc = "done"
    /\ ~arg.parser_raises
    /\ arg.html_content.body
    /\ Len(arg.html_content.nodes) = 2
    /\ arg.html_content.nodes[1] = Element("nav", "", "", <<"t1">>, <<>>)
    /\ arg.html_content.nodes[2] =
          Element("main", "", "", <<"t2">>, <<Element("script", "", "", <<"k2">>, <<>>)>>)
    /\ value = [kind |-> "text", words |-> <<"t2">>]

\* the fields of a text that are URLs, without the whitespace around them,
\* in reading order: line after line, and within a line from left to right
RECURSIVE UrlsInReadingOrder(_)
UrlsInReadingOrder(lines) ==
    IF lines = <<>>
    THEN <<>>
    ELSE SelectSeq([k \in DOMAIN Head(lines) |->
                       IF Head(lines)[k] = " https://a.example "
                       THEN "https://a.example" ELSE Head(lines)[k]],
                   LAMBDA u : u # "")
         \o UrlsInReadingOrder(Tail(lines))

\* where u first occurs in the sequence us
FirstOccurrence(us, u) ==
    CHOOSE p \in DOMAIN us : us[p] = u /\ \A q \in 1..(p - 1) : us[q] # u

\* C30: /upload-urls-advanced analyzes each distinct URL of its input once,
\* in the order in which the URLs first appear across the lines and the
\* comma-separated fields, and total_urls is the number of distinct
\* non-empty URLs (1 for a single URL).
C30_DuplicatesRemovedInFirstOrder ==
    (fn = "upload_urls_advanced" /\ fn_pc = "done" /\ value.status = 0) =>
        LET given == UrlsInReadingOrder(arg)
            distinct == {given[p] : p \in DOMAIN given}
        IN  /\ {value.urls[p] : p \in DOMAIN value.urls} = distinct
            /\ Len(value.urls) = Cardinality(distinct)
            /\ \A p, q \in DOMAIN value.urls :
                  p < q => FirstOccurrence(given, value.urls[p])
                              < FirstOccurrence(given, value.urls[q])
            /\ value.total_urls = Cardinality(distinct)
            /\ Len(given) = 1 => value.total_urls = 1

\* the text "https://b.example, https://a.example" / "https://a.example":
\* two distinct URLs, b first
C30_Witness ==
    /\ fn = "upload_urls_advanced"
    /\ fn_pc = "done"
    /\ arg = << <<"https://b.example", " https://a.example ">>, <<"https://a.example">> >>
    /\ value.status = 0
    /\ value.urls = <<"https://b.example", "https://a.example">>
    /\ value.total_urls = 2

====
